---- MODULE Spec2Model ----
(***************************************************************************)
(* The OAuth 2.0 token revocation endpoint of                              *)
(* src/server/auth/handlers/revoke.ts: revocationHandler() builds a nested *)
(* router (cors, allowedMethods, urlencoded, rateLimit unless disabled,    *)
(* authenticateClient, the POST handler); every request walks that router  *)
(* one middleware at a time.                                               *)
(*                                                                         *)
(* The middlewares the handler calls but that live in other files of the   *)
(* repository (allowedMethods, authenticateClient, the error classes, the  *)
(* request schema) are modelled from the specification.  The packages      *)
(* cors, express and express-rate-limit are modelled by the behaviour of   *)
(* the calls revoke.ts makes with the options it passes.                   *)
(***************************************************************************)
EXTENDS Integers, Sequences, FiniteSets, TLC

VARIABLES
    constructed,   \* "none" | "ok" | "failed": outcome of revocationHandler()
    provider,      \* the provider passed in: [revokeToken : BOOLEAN]
    rateLimitConfig, \* the caller's rateLimit option
    router,        \* the middleware stack built by revocationHandler()
    options,       \* the options object handed to rateLimit()
    hits,          \* the rate limiter's counter for the current window
    req,           \* per connection: the request and its position in the router
    res,           \* per connection: the response under construction / sent
    calls          \* per connection: the provider.revokeToken invocations made

vars == <<constructed, provider, rateLimitConfig, router, options, hits, req, res, calls>>

----------------------------------------------------------------------------
(* Bounds *)

\* Connections the server handles at the same time (a slot is reused once its
\* request is finished).
Conns == {"c1", "c2"}

\* How far past the configured maximum the limiter's counter is followed.
MaxOver == 2

----------------------------------------------------------------------------
(* Values *)

Methods == {"POST", "GET", "DELETE", "OPTIONS"}

NoValue == "undefined"

EmptyObject == {}

\* JSON objects are sets of <<key, value>> pairs.
ErrorCodeOf(class) ==
    CASE class = "ServerError" -> "server_error"
      [] class = "InvalidRequestError" -> "invalid_request"
      [] class = "InvalidClientError" -> "invalid_client"
      [] class = "TooManyRequestsError" -> "too_many_requests"
      [] class = "MethodNotAllowedError" -> "method_not_allowed"
      [] class = "UnsupportedTokenTypeError" -> "unsupported_token_type"
      [] OTHER -> "error"

OAuthErrorClasses ==
    {"ServerError", "InvalidRequestError", "InvalidClientError",
     "TooManyRequestsError", "MethodNotAllowedError", "UnsupportedTokenTypeError"}

NewError(class, message) == [class |-> class, message |-> message]

\* error instanceof OAuthError
IsOAuthError(error) == error.class \in OAuthErrorClasses

\* error instanceof ServerError
IsServerError(error) == error.class = "ServerError"

\* OAuthError.toResponseObject()
ToResponseObject(error) ==
    {<<"error", ErrorCodeOf(error.class)>>, <<"error_description", error.message>>}

----------------------------------------------------------------------------
(* Construction: revocationHandler({ provider, rateLimit }) *)

\* The rateLimit option: false, undefined, or a partial options object.
Disabled == [kind |-> "false", value |-> <<>>]
Undefined == [kind |-> "undefined", value |-> <<>>]
Object(o) == [kind |-> "object", value |-> o]

CustomMessage == {<<"message", "slow down">>}

RateLimitConfigs ==
    { Disabled,
      Undefined,
      Object([max |-> 1]),
      Object([max |-> 2, message |-> CustomMessage]),
      Object([max |-> 1, windowMs |-> 1000, standardHeaders |-> FALSE,
              legacyHeaders |-> TRUE]) }

Providers == { [revokeToken |-> TRUE], [revokeToken |-> FALSE] }

DefaultWindowMs == 15 * 60 * 1000

DefaultMax == 50

TooManyRequestsMessage ==
    ToResponseObject(NewError("TooManyRequestsError",
        "You have exceeded the rate limit for token revocation requests"))

DefaultOptions ==
    [ windowMs |-> DefaultWindowMs,
      max |-> DefaultMax,
      standardHeaders |-> TRUE,
      legacyHeaders |-> FALSE,
      message |-> TooManyRequestsMessage ]

SpreadDefaultsWin(defaults, overrides) ==
    [k \in DOMAIN defaults \cup DOMAIN overrides |->
        IF k \in DOMAIN defaults THEN defaults[k] ELSE overrides[k]]

\* { ...defaults, ...overrides }: a later key wins; spreading undefined adds nothing.
Spread(defaults, overrides) ==
    [k \in DOMAIN defaults \cup DOMAIN overrides |->
        IF k \in DOMAIN overrides THEN overrides[k] ELSE defaults[k]]

\* The object passed to rateLimit().
RateLimitOptions(cfg) ==
    Spread(DefaultOptions, IF cfg.kind = "object" THEN cfg.value ELSE <<>>)

LacksRevokeTokenUnchecked(p) == FALSE

\* !provider.revokeToken
LacksRevokeToken(p) == ~p.revokeToken

RateLimitEnabledAlways(cfg) == TRUE

\* rateLimitConfig !== false
RateLimitEnabled(cfg) == cfg.kind # "false"

RouterPostBeforeAuth(cfg) ==
    <<"cors", "allowedMethods", "urlencoded">>
    \o (IF cfg.kind # "false" THEN <<"rateLimit">> ELSE <<>>)
    \o <<"post", "authenticateClient">>

RouterAuthBeforeLimit(cfg) ==
    <<"cors", "allowedMethods", "urlencoded", "authenticateClient">>
    \o (IF cfg.kind # "false" THEN <<"rateLimit">> ELSE <<>>)
    \o <<"post">>

RouterLimitBeforeGate(cfg) ==
    <<"cors">>
    \o (IF cfg.kind # "false" THEN <<"rateLimit">> ELSE <<>>)
    \o <<"allowedMethods", "urlencoded", "authenticateClient", "post">>

RouterLimitLast(cfg) ==
    <<"cors", "allowedMethods", "urlencoded", "authenticateClient", "post">>
    \o (IF cfg.kind # "false" THEN <<"rateLimit">> ELSE <<>>)

RouterGateBeforeCors(cfg) ==
    <<"allowedMethods", "cors", "urlencoded">>
    \o (IF cfg.kind # "false" THEN <<"rateLimit">> ELSE <<>>)
    \o <<"authenticateClient", "post">>

RouterAuthFirst(cfg) ==
    <<"authenticateClient", "cors", "allowedMethods", "urlencoded">>
    \o (IF cfg.kind # "false" THEN <<"rateLimit">> ELSE <<>>)
    \o <<"post">>

\* The router.use / router.post calls, in registration order.
Router(cfg) ==
    <<"cors", "allowedMethods", "urlencoded">>
    \o (IF RateLimitEnabled(cfg) THEN <<"rateLimit">> ELSE <<>>)
    \o <<"authenticateClient", "post">>

NoOptions == <<>>

\* A connection slot with no request on it.
NoError == NewError("none", "")

FreshReq ==
    [ pc |-> "free",        \* free | run | await | done | error
      at |-> 0,             \* index in router of the middleware to run next
      method |-> NoValue,
      body |-> <<>>,        \* req.body
      client |-> NoValue,   \* req.client
      creds |-> NoValue,    \* the credentials sent: "valid" | "invalid"
      limited |-> FALSE,    \* the limiter counted this request over options.max
      ran |-> <<>>,         \* the middlewares that have run, in order
      thrown |-> NoError ]  \* what provider.revokeToken threw, if it did

FreshRes ==
    [ status |-> 0,         \* 0: nothing sent yet
      json |-> EmptyObject,
      ended |-> "no",       \* no | json (res.json) | end (res.end, no body)
      headers |-> {} ]

Init ==
    /\ constructed = "none"
    /\ provider \in Providers
    /\ rateLimitConfig \in RateLimitConfigs
    /\ router = <<>>
    /\ options = NoOptions
    /\ hits = 0
    /\ req = [c \in Conns |-> FreshReq]
    /\ res = [c \in Conns |-> FreshRes]
    /\ calls = [c \in Conns |-> <<>>]

\* revocationHandler({ provider, rateLimit: rateLimitConfig })
Construct ==
    /\ constructed = "none"
    /\ IF LacksRevokeToken(provider)
       THEN /\ constructed' = "failed"   \* throw new Error(...)
            /\ UNCHANGED <<router, options>>
       ELSE /\ constructed' = "ok"
            /\ router' = Router(rateLimitConfig)
            /\ options' = IF RateLimitEnabled(rateLimitConfig)
                          THEN RateLimitOptions(rateLimitConfig)
                          ELSE NoOptions
    /\ UNCHANGED <<provider, rateLimitConfig, hits, req, res, calls>>

----------------------------------------------------------------------------
(* Requests *)

RunningOneAtATime(c, name) ==
    /\ constructed = "ok"
    /\ \A d \in Conns : req[d].pc # "await"
    /\ req[c].pc = "run"
    /\ req[c].at \in DOMAIN router
    /\ router[req[c].at] = name

\* The router dispatches a request to the middleware it has reached, whatever
\* the other requests are doing.
Running(c, name) ==
    /\ constructed = "ok"
    /\ req[c].pc = "run"
    /\ req[c].at \in DOMAIN router
    /\ router[req[c].at] = name

\* The middleware `name` has run on q.
Ran(q, name) == [q EXCEPT !.ran = Append(@, name)]

\* next(): on to the following middleware; past the last one the request leaves
\* the router unanswered.
CallNext(q) ==
    IF q.at < Len(router)
    THEN [q EXCEPT !.at = @ + 1]
    ELSE [q EXCEPT !.pc = "error", !.thrown = NewError("NotFound", "no route")]

\* next(err): the router has no error-handling middleware, so the error goes to
\* the application that mounted it.
CallNextError(q, err) == [q EXCEPT !.pc = "error", !.thrown = err]

\* res.status(status).json(object)
Json(s, status, object) ==
    [s EXCEPT !.status = status, !.json = object, !.ended = "json"]

SetHeaderForgotten(s, header) == s

\* res.setHeader(name, value)
SetHeader(s, header) == [s EXCEPT !.headers = @ \cup {header}]

DoneAndNext(q) ==
    IF q.at < Len(router) THEN [q EXCEPT !.at = @ + 1] ELSE [q EXCEPT !.pc = "done"]

\* The middleware has answered and does not call next(): the request is over.
Done(q) == [q EXCEPT !.pc = "done"]

\* A request arrives on a free connection and enters the router.
Arrive(c, m) ==
    /\ constructed = "ok"
    /\ req[c].pc = "free"
    /\ req' = [req EXCEPT ![c] = [FreshReq EXCEPT !.pc = "run", !.at = 1, !.method = m]]
    /\ UNCHANGED <<constructed, provider, rateLimitConfig, router, options, hits, res, calls>>

AllowAnyOrigin == "Access-Control-Allow-Origin: *"

\* cors() with its default options: every response allows any origin; an
\* OPTIONS request is a preflight, answered here with 204 and no body
\* (preflightContinue is off).
Cors(c) ==
    /\ Running(c, "cors")
    /\ IF req[c].method = "OPTIONS"
       THEN /\ res' = [res EXCEPT ![c] =
                        [SetHeader(@, AllowAnyOrigin) EXCEPT !.status = 204, !.ended = "end"]]
            /\ req' = [req EXCEPT ![c] = Done(Ran(@, "cors"))]
       ELSE /\ res' = [res EXCEPT ![c] = SetHeader(@, AllowAnyOrigin)]
            /\ req' = [req EXCEPT ![c] = CallNext(Ran(@, "cors"))]
    /\ UNCHANGED <<constructed, provider, rateLimitConfig, router, options, hits, calls>>

AllowedMethodsListWithGet == {"POST", "GET"}

\* allowedMethods(["POST"])
AllowedMethodsList == {"POST"}

MethodNotAllowed ==
    ToResponseObject(NewError("MethodNotAllowedError", "method not allowed"))

AllowedMethods(c) ==
    /\ Running(c, "allowedMethods")
    /\ IF req[c].method \in AllowedMethodsList
       THEN /\ req' = [req EXCEPT ![c] = CallNext(Ran(@, "allowedMethods"))]
            /\ res' = res
       ELSE /\ res' = [res EXCEPT ![c] = Json(@, 405, MethodNotAllowed)]
            /\ req' = [req EXCEPT ![c] = Done(Ran(@, "allowedMethods"))]
    /\ UNCHANGED <<constructed, provider, rateLimitConfig, router, options, hits, calls>>

\* Request bodies as sent: a content type, a length in bytes and the form's
\* name=value pairs in order.
Form(type, length, pairs) == [type |-> type, length |-> length, pairs |-> pairs]

UrlencodedType == "application/x-www-form-urlencoded"

RequestBodies ==
    { Form(UrlencodedType, 20, << <<"token", "tokA">> >>),
      Form(UrlencodedType, 60, << <<"token", "tokUnknown">>,
                                  <<"token_type_hint", "refresh_token">> >>),
      Form(UrlencodedType, 30, << <<"token_type_hint", "access_token">> >>),
      Form(UrlencodedType, 40, << <<"token", "tokA">>, <<"token", "tokUnknown">> >>),
      Form("application/json", 20, << <<"token", "tokA">> >>),
      Form(UrlencodedType, 200000, << <<"token", "tokA">> >>) }

\* The tokens the provider has issued and not revoked.
IssuedTokens == {"tokA"}

\* express.urlencoded's default limit, 100kb.
UrlencodedLimit == 102400

\* The values given for one name, in order.
ValuesOf(pairs, name) ==
    LET F[i \in 0..Len(pairs)] ==
            IF i = 0 THEN <<>>
            ELSE IF pairs[i][1] = name THEN Append(F[i - 1], pairs[i][2])
            ELSE F[i - 1]
    IN F[Len(pairs)]

\* querystring parsing (extended: false): a parsed value is the sequence of the
\* values given for its name; one value is a string, several are an array.
ParseUrlencoded(pairs) ==
    [name \in {pairs[i][1] : i \in DOMAIN pairs} |-> ValuesOf(pairs, name)]

IsString(v) == Len(v) = 1

\* express.urlencoded({ extended: false }) reads the request as sent, body and
\* client credentials: a body of another content type is left unparsed (req.body
\* stays empty); a body over the limit is an error handed to next().
Credentials == {"valid", "invalid"}

Urlencoded(c, form, creds) ==
    /\ Running(c, "urlencoded")
    /\ IF form.type # UrlencodedType
       THEN req' = [req EXCEPT ![c] = CallNext([Ran(@, "urlencoded") EXCEPT !.creds = creds])]
       ELSE IF form.length > UrlencodedLimit
       THEN req' = [req EXCEPT ![c] =
                CallNextError([Ran(@, "urlencoded") EXCEPT !.creds = creds],
                              NewError("PayloadTooLargeError", "request entity too large"))]
       ELSE req' = [req EXCEPT ![c] =
                CallNext([Ran(@, "urlencoded") EXCEPT
                            !.creds = creds, !.body = ParseUrlencoded(form.pairs)])]
    /\ UNCHANGED <<constructed, provider, rateLimitConfig, router, options, hits, res, calls>>

\* rateLimit(options): count the request; over options.max answer 429 with
\* options.message and do not call next().
RateLimitHeaders(o) ==
    (IF o.standardHeaders THEN {"RateLimit-Limit"} ELSE {})
    \cup (IF o.legacyHeaders THEN {"X-RateLimit-Limit"} ELSE {})

RateLimit(c) ==
    /\ Running(c, "rateLimit")
    /\ hits < options.max + MaxOver
    /\ hits' = hits + 1
    /\ IF hits' > options.max
       THEN /\ res' = [res EXCEPT ![c] =
                        Json([@ EXCEPT !.headers = @ \cup RateLimitHeaders(options)],
                             429, options.message)]
            /\ req' = [req EXCEPT ![c] = Done([Ran(@, "rateLimit") EXCEPT !.limited = TRUE])]
       ELSE /\ res' = [res EXCEPT ![c] = [@ EXCEPT !.headers = @ \cup RateLimitHeaders(options)]]
            /\ req' = [req EXCEPT ![c] = CallNext(Ran(@, "rateLimit"))]
    /\ UNCHANGED <<constructed, provider, rateLimitConfig, router, options, calls>>

\* The rate limiter's window ends: its counter starts again.
WindowExpires ==
    /\ constructed = "ok"
    /\ hits > 0
    /\ hits' = 0
    /\ UNCHANGED <<constructed, provider, rateLimitConfig, router, options, req, res, calls>>

\* authenticateClient({ clientsStore }): credentials that resolve to a client
\* attach it to the request; any others end the request with a 4xx error.
AuthFailureStatuses == {400, 401}

InvalidClient == ToResponseObject(NewError("InvalidClientError", "Invalid client credentials"))

AuthenticateClient(c, status) ==
    /\ Running(c, "authenticateClient")
    /\ IF req[c].creds = "valid"
       THEN /\ req' = [req EXCEPT ![c] =
                        CallNext([Ran(@, "authenticateClient") EXCEPT !.client = "client-1"])]
            /\ res' = res
       ELSE /\ res' = [res EXCEPT ![c] = Json(@, status, InvalidClient)]
            /\ req' = [req EXCEPT ![c] = Done(Ran(@, "authenticateClient"))]
    /\ UNCHANGED <<constructed, provider, rateLimitConfig, router, options, hits, calls>>

----------------------------------------------------------------------------
(* The POST handler *)

\* OAuthTokenRevocationRequestSchema.safeParse(req.body): token is a required
\* string, token_type_hint an optional string; other fields are dropped.
SchemaFields == {"token", "token_type_hint"}

SafeParse(body) ==
    IF "token" \notin DOMAIN body
    THEN [success |-> FALSE, message |-> "token: Required", data |-> <<>>]
    ELSE IF \E f \in SchemaFields \cap DOMAIN body : ~IsString(body[f])
    THEN [success |-> FALSE, message |-> "Expected string, received array", data |-> <<>>]
    ELSE [success |-> TRUE, message |-> "",
          data |-> [f \in SchemaFields \cap DOMAIN body |-> body[f][1]]]

InvalidNever(parseResult) == FALSE

\* !parseResult.success
Invalid(parseResult) == ~parseResult.success

InternalServerError == NewError("ServerError", "Internal Server Error")

StatusOfAlways400(error) == 400

\* const status = error instanceof ServerError ? 500 : 400
StatusOf(error) == IF IsServerError(error) THEN 500 ELSE 400

GenericBodyLeaking(error) == ToResponseObject(NewError("ServerError", error.message))

\* The body sent for an error that is not an OAuthError.
GenericBody(error) == ToResponseObject(InternalServerError)

\* catch (error) { ... }
Catch(s, error) ==
    IF IsOAuthError(error)
    THEN Json(s, StatusOf(error), ToResponseObject(error))
    ELSE Json(s, 500, GenericBody(error))

NoCache == "Cache-Control: no-cache"

NoStore == "Cache-Control: no-store"

\* What the provider's revokeToken may throw.
ProviderErrors ==
    { NewError("ServerError", "token store unavailable"),
      NewError("InvalidRequestError", "token is malformed"),
      NewError("UnsupportedTokenTypeError", "cannot revoke this token type"),
      NewError("Error", "connect ECONNREFUSED 10.0.0.5:5432"),
      NewError("TypeError", "cannot read properties of undefined") }

ThrownBeforeCallClientFirst(parseResult, client) ==
    IF client = NoValue THEN InternalServerError
    ELSE IF Invalid(parseResult) THEN NewError("InvalidRequestError", parseResult.message)
    ELSE NoError

\* What the try block throws before it reaches the provider: the body is
\* validated first, then req.client is read.
ThrownBeforeCall(parseResult, client) ==
    IF Invalid(parseResult) THEN NewError("InvalidRequestError", parseResult.message)
    ELSE IF client = NoValue THEN InternalServerError
    ELSE NoError

\* router.post("/", async (req, res) => { ... }) up to the await; a request of
\* another method does not match the route and is passed on.
PostHandler(c) ==
    /\ Running(c, "post")
    /\ LET q == Ran(req[c], "post")
           s == SetHeader(res[c], NoStore)
           parseResult == SafeParse(req[c].body)
           thrown == ThrownBeforeCall(parseResult, req[c].client)
       IN IF req[c].method # "POST"
          THEN /\ req' = [req EXCEPT ![c] = CallNext(@)]
               /\ UNCHANGED <<res, calls>>
          ELSE IF thrown # NoError
          THEN /\ res' = [res EXCEPT ![c] = Catch(s, thrown)]
               /\ req' = [req EXCEPT ![c] = Done(q)]
               /\ calls' = calls
          ELSE IF ~provider.revokeToken
          THEN \* calling undefined throws a TypeError
               LET error == NewError("TypeError", "provider.revokeToken is not a function")
               IN /\ res' = [res EXCEPT ![c] = Catch(s, error)]
                  /\ req' = [req EXCEPT ![c] = Done([q EXCEPT !.thrown = error])]
                  /\ calls' = calls
          ELSE /\ calls' = [calls EXCEPT ![c] =
                            Append(@, [client |-> req[c].client, request |-> parseResult.data])]
               /\ res' = [res EXCEPT ![c] = s]
               /\ req' = [req EXCEPT ![c] = [q EXCEPT !.pc = "await"]]
    /\ UNCHANGED <<constructed, provider, rateLimitConfig, router, options, hits>>

\* await provider.revokeToken(...) completes: res.status(200).json({})
RevokeResolves(c) ==
    /\ req[c].pc = "await"
    /\ res' = [res EXCEPT ![c] = Json(@, 200, EmptyObject)]
    /\ req' = [req EXCEPT ![c] = Done(@)]
    /\ UNCHANGED <<constructed, provider, rateLimitConfig, router, options, hits, calls>>

\* await provider.revokeToken(...) throws
RevokeRejects(c, error) ==
    /\ req[c].pc = "await"
    /\ res' = [res EXCEPT ![c] = Catch(@, error)]
    /\ req' = [req EXCEPT ![c] = Done([@ EXCEPT !.thrown = error])]
    /\ UNCHANGED <<constructed, provider, rateLimitConfig, router, options, hits, calls>>

\* The exchange is over and the connection takes the next request.
Close(c) ==
    /\ req[c].pc \in {"done", "error"}
    /\ req' = [req EXCEPT ![c] = FreshReq]
    /\ res' = [res EXCEPT ![c] = FreshRes]
    /\ calls' = [calls EXCEPT ![c] = <<>>]
    /\ UNCHANGED <<constructed, provider, rateLimitConfig, router, options, hits>>

Next ==
    \/ Construct
    \/ \E c \in Conns, m \in Methods : Arrive(c, m)
    \/ \E c \in Conns : Cors(c)
    \/ \E c \in Conns : AllowedMethods(c)
    \/ \E c \in Conns, form \in RequestBodies, creds \in Credentials :
            Urlencoded(c, form, creds)
    \/ \E c \in Conns : RateLimit(c)
    \/ WindowExpires
    \/ \E c \in Conns, status \in AuthFailureStatuses : AuthenticateClient(c, status)
    \/ \E c \in Conns : PostHandler(c)
    \/ \E c \in Conns : RevokeResolves(c)
    \/ \E c \in Conns, error \in ProviderErrors : RevokeRejects(c, error)
    \/ \E c \in Conns : Close(c)

Spec == Init /\ [][Next]_vars

\* The POST handler on its own: it is called with requests whose body and
\* client are whatever the middlewares before it left on them.
Clients == {NoValue, "client-1"}

HandlerInit ==
    /\ constructed = "ok"
    /\ provider = [revokeToken |-> TRUE]
    /\ rateLimitConfig \in RateLimitConfigs
    /\ router = Router(rateLimitConfig)
    /\ options = IF RateLimitEnabled(rateLimitConfig)
                 THEN RateLimitOptions(rateLimitConfig)
                 ELSE NoOptions
    /\ hits = 0
    /\ req = [c \in Conns |-> FreshReq]
    /\ res = [c \in Conns |-> FreshRes]
    /\ calls = [c \in Conns |-> <<>>]

Dispatch(c, pairs, client) ==
    /\ req[c].pc = "free"
    /\ \E i \in DOMAIN router :
        /\ router[i] = "post"
        /\ req' = [req EXCEPT ![c] =
                    [FreshReq EXCEPT !.pc = "run", !.at = i, !.method = "POST",
                                     !.body = ParseUrlencoded(pairs), !.client = client]]
    /\ UNCHANGED <<constructed, provider, rateLimitConfig, router, options, hits, res, calls>>

HandlerNext ==
    \/ \E c \in Conns, form \in RequestBodies, client \in Clients :
            Dispatch(c, form.pairs, client)
    \/ \E c \in Conns : PostHandler(c)
    \/ \E c \in Conns : RevokeResolves(c)
    \/ \E c \in Conns, error \in ProviderErrors : RevokeRejects(c, error)
    \/ \E c \in Conns : Close(c)

HandlerSpec == HandlerInit /\ [][HandlerNext]_vars

TypeOK ==
    /\ constructed \in {"none", "ok", "failed"}
    /\ hits \in Nat
    /\ \A c \in Conns : req[c].pc \in {"free", "run", "await", "done", "error"}

----------------------------------------------------------------------------
(* Properties *)

RanStage(c, name) == \E i \in DOMAIN req[c].ran : req[c].ran[i] = name

Answered(c) == req[c].pc = "done"

Invoked(c) == calls[c] # <<>>

NonPost(c) == req[c].method \notin {NoValue, "POST"}

ErrorBody(code, description) == {<<"error", code>>, <<"error_description", description>>}

\* C1 as stated: every answered non-POST request (OPTIONS included) got the
\* method-not-allowed error, and revokeToken was never invoked for it.
C1_AsStated ==
    \A c \in Conns :
        NonPost(c) =>
            /\ ~Invoked(c)
            /\ Answered(c) =>
                 /\ res[c].status = 405
                 /\ <<"error", "method_not_allowed">> \in res[c].json

\* C1 amended: a request whose method is neither POST nor OPTIONS gets no
\* further than the method gate and is answered with the method-not-allowed
\* error; an OPTIONS request is answered by the cross-origin stage (204, no
\* body); for no non-POST request is revokeToken invoked.
C1_NonPostRejected ==
    \A c \in Conns :
        NonPost(c) =>
            /\ ~Invoked(c)
            /\ req[c].pc \in {"run", "done"}
            /\ Len(req[c].ran) <= 2
            /\ (Answered(c) /\ req[c].method # "OPTIONS") =>
                 /\ res[c].status = 405
                 /\ <<"error", "method_not_allowed">> \in res[c].json
                 /\ req[c].ran = <<"cors", "allowedMethods">>
            /\ (Answered(c) /\ req[c].method = "OPTIONS") =>
                 /\ res[c].status = 204
                 /\ res[c].ended = "end"
                 /\ req[c].ran = <<"cors">>

C1_Witness ==
    \E c \in Conns :
        /\ req[c].method = "GET" /\ Answered(c) /\ res[c].status = 405
        /\ \E d \in Conns : req[d].method = "OPTIONS" /\ Answered(d)

\* C2: a POST request that passed the rate limit and authentication with a
\* schema-valid body, and whose revokeToken call returned, is answered exactly
\* 200 {} with Cache-Control: no-store, whether or not its token was issued.
C2_SuccessIs200Empty ==
    \A c \in Conns :
        ( /\ Answered(c)
          /\ RanStage(c, "post")
          /\ SafeParse(req[c].body).success
          /\ req[c].client # NoValue
          /\ req[c].thrown = NoError )
        => /\ res[c].status = 200
           /\ res[c].json = {}
           /\ res[c].ended = "json"
           /\ NoStore \in res[c].headers
           /\ Len(calls[c]) = 1

C2_Witness ==
    /\ \E c \in Conns :
        /\ Answered(c) /\ res[c].status = 200 /\ Invoked(c)
        /\ calls[c][1].request.token \notin IssuedTokens
    /\ \E c \in Conns :
        /\ Answered(c) /\ res[c].status = 200 /\ Invoked(c)
        /\ calls[c][1].request.token \in IssuedTokens

\* C3: a request that reached the POST handler with a body that lacks token or
\* otherwise fails the schema is answered 400 InvalidRequest, and revokeToken
\* is not invoked for it.
C3_InvalidBodyIs400 ==
    \A c \in Conns :
        ( /\ RanStage(c, "post")
          /\ \/ "token" \notin DOMAIN req[c].body
             \/ \E f \in SchemaFields \cap DOMAIN req[c].body : Len(req[c].body[f]) # 1 )
        => /\ Answered(c)
           /\ res[c].status = 400
           /\ <<"error", "invalid_request">> \in res[c].json
           /\ ~Invoked(c)

C3_Witness ==
    /\ \E c \in Conns :
        /\ RanStage(c, "post") /\ "token" \notin DOMAIN req[c].body /\ res[c].status = 400
    /\ \E c \in Conns :
        /\ RanStage(c, "post") /\ "token" \in DOMAIN req[c].body
        /\ Len(req[c].body.token) = 2 /\ res[c].status = 400

\* C4: a request whose credentials do not authenticate never has revokeToken
\* invoked, and the answer it gets from the endpoint has a 4xx status; when the
\* authentication stage is the one that answers, nothing after it has run.
C4_BadCredentialsIs4xx ==
    \A c \in Conns :
        req[c].creds = "invalid" =>
            /\ ~Invoked(c)
            /\ Answered(c) => res[c].status \in 400..499
            /\ RanStage(c, "authenticateClient") =>
                 /\ Answered(c)
                 /\ ~RanStage(c, "post")

C4_Witness ==
    \E c \in Conns :
        /\ req[c].creds = "invalid" /\ RanStage(c, "authenticateClient")
        /\ Answered(c) /\ res[c].status \in AuthFailureStatuses

\* C5 as stated: every request counted over the maximum is answered with the
\* TooManyRequests error body, and neither authentication nor the POST handler
\* runs for it.
C5_AsStated ==
    \A c \in Conns :
        req[c].limited =>
            /\ Answered(c)
            /\ res[c].json = ErrorBody("too_many_requests",
                   "You have exceeded the rate limit for token revocation requests")
            /\ ~RanStage(c, "authenticateClient")
            /\ ~RanStage(c, "post")
            /\ ~Invoked(c)

\* The message the caller configured, or the TooManyRequests error body.
ConfiguredMessage ==
    IF rateLimitConfig.kind = "object" /\ "message" \in DOMAIN rateLimitConfig.value
    THEN rateLimitConfig.value.message
    ELSE ErrorBody("too_many_requests",
                   "You have exceeded the rate limit for token revocation requests")

\* C5 amended: every request counted over the maximum is answered 429 with the
\* configured message, which is the TooManyRequests error body unless the
\* caller's configuration sets its own, and neither authentication nor the
\* POST handler runs for it.
C5_OverLimitRejected ==
    \A c \in Conns :
        req[c].limited =>
            /\ Answered(c)
            /\ res[c].status = 429
            /\ res[c].json = ConfiguredMessage
            /\ ~RanStage(c, "authenticateClient")
            /\ ~RanStage(c, "post")
            /\ ~Invoked(c)

C5_Witness ==
    /\ rateLimitConfig.kind = "undefined"
    /\ hits = DefaultMax + 1
    /\ \E c \in Conns : req[c].limited /\ res[c].status = 429

\* C6: when revokeToken throws an OAuthError the answer is 500 for a
\* ServerError and 400 for any other, with the error's own
\* {error, error_description} as body.
C6_ProtocolErrorMapped ==
    \A c \in Conns :
        (Answered(c) /\ Invoked(c) /\ req[c].thrown.class \in OAuthErrorClasses) =>
            /\ res[c].status = IF req[c].thrown.class = "ServerError" THEN 500 ELSE 400
            /\ res[c].json = ErrorBody(ErrorCodeOf(req[c].thrown.class), req[c].thrown.message)

C6_Witness ==
    /\ \E c \in Conns :
        Invoked(c) /\ req[c].thrown.class = "ServerError" /\ res[c].status = 500
    /\ \E c \in Conns :
        Invoked(c) /\ req[c].thrown.class = "UnsupportedTokenTypeError" /\ res[c].status = 400

NonProtocolFailure(c) ==
    /\ Answered(c)
    /\ RanStage(c, "post")
    /\ req[c].thrown # NoError
    /\ req[c].thrown.class \notin OAuthErrorClasses

\* C7: when revokeToken throws anything that is not an OAuthError the answer is
\* exactly 500 {error: server_error, error_description: Internal Server Error},
\* and two requests that differ only in what was thrown get the same response.
C7_InternalErrorIsGeneric500 ==
    /\ \A c \in Conns :
        NonProtocolFailure(c) =>
            /\ res[c].status = 500
            /\ res[c].json = ErrorBody("server_error", "Internal Server Error")
    /\ \A c, d \in Conns :
        NonProtocolFailure(c) /\ NonProtocolFailure(d) => res[c] = res[d]

C7_Witness ==
    \E c, d \in Conns :
        /\ NonProtocolFailure(c) /\ NonProtocolFailure(d)
        /\ req[c].thrown # req[d].thrown
        /\ res[c].status = 500

\* C8: with a provider that has no revokeToken, construction fails: no router
\* is built and no request is ever taken.
C8_NoRevokeNoEndpoint ==
    ~provider.revokeToken =>
        /\ constructed # "ok"
        /\ router = <<>>
        /\ \A c \in Conns : req[c].pc = "free" /\ res[c] = FreshRes

C8_Witness == ~provider.revokeToken /\ constructed = "failed"

\* C9: with rateLimit = false no request is answered TooManyRequests and the
\* rate limiter neither runs nor counts.
C9_DisabledNeverLimits ==
    rateLimitConfig.kind = "false" =>
        /\ hits = 0
        /\ \A c \in Conns :
            /\ ~req[c].limited
            /\ ~RanStage(c, "rateLimit")
            /\ res[c].status # 429
            /\ <<"error", "too_many_requests">> \notin res[c].json

C9_Witness ==
    /\ rateLimitConfig.kind = "false"
    /\ \A c \in Conns : Answered(c) /\ res[c].status = 200

\* C10: a step of a non-POST request never changes the rate limiter's counter,
\* and no non-POST request reaches the rate limiter or is answered 429.
C10_NonPostLeavesBudget ==
    [][ \A c \in Conns :
            (req'[c] # req[c] /\ req'[c].method \notin {NoValue, "POST"}) =>
                /\ hits' = hits
                /\ ~req'[c].limited
                /\ res'[c].status # 429
                /\ \A i \in DOMAIN req'[c].ran : req'[c].ran[i] # "rateLimit" ]_vars

C10_Witness ==
    /\ constructed = "ok"
    /\ rateLimitConfig.kind = "object"
    /\ hits = options.max
    /\ \E c \in Conns : req[c].method = "GET" /\ Answered(c)
    /\ \E c \in Conns : req[c].method = "POST" /\ Answered(c) /\ res[c].status = 200

\* The stages in the order the endpoint runs them; the rate-limit stage is
\* there unless rate limiting is disabled.
StageOrder ==
    IF rateLimitConfig.kind = "false"
    THEN <<"cors", "allowedMethods", "urlencoded", "authenticateClient", "post">>
    ELSE <<"cors", "allowedMethods", "urlencoded", "rateLimit", "authenticateClient", "post">>

IsPrefix(s, t) == Len(s) <= Len(t) /\ \A i \in DOMAIN s : s[i] = t[i]

\* C11: the stages a request has been through are always an initial part of
\* cors, method gate, (body parsing,) rate limit, authentication, POST handler;
\* a stage has run only if the ones before it let the request pass; and
\* revokeToken is invoked only for a request that has been through all of them
\* and whose body passed validation.
C11_StagesInOrder ==
    \A c \in Conns :
        /\ IsPrefix(req[c].ran, StageOrder)
        /\ Len(req[c].ran) >= 2 => req[c].method # "OPTIONS"
        /\ Len(req[c].ran) >= 3 => req[c].method = "POST"
        /\ RanStage(c, "authenticateClient") => ~req[c].limited
        /\ RanStage(c, "post") => req[c].creds = "valid" /\ req[c].client # NoValue
        /\ (Answered(c) /\ res[c].status \in {204, 405, 429}) =>
                ~RanStage(c, "authenticateClient") /\ ~RanStage(c, "post")
        /\ Invoked(c) =>
            /\ req[c].ran = StageOrder
            /\ "token" \in DOMAIN req[c].body
            /\ \A f \in SchemaFields \cap DOMAIN req[c].body : Len(req[c].body[f]) = 1

C11_Witness ==
    \E c \in Conns :
        /\ Invoked(c) /\ Answered(c) /\ res[c].status = 200
        /\ req[c].ran =
             <<"cors", "allowedMethods", "urlencoded", "rateLimit", "authenticateClient", "post">>

\* The next middleware of the request on connection c runs.
StageStep(c) ==
    \/ Cors(c)
    \/ AllowedMethods(c)
    \/ \E form \in RequestBodies, creds \in Credentials : Urlencoded(c, form, creds)
    \/ RateLimit(c)
    \/ \E status \in AuthFailureStatuses : AuthenticateClient(c, status)
    \/ PostHandler(c)

\* The limiter's counter has reached the point past which it is not followed.
CounterAtBound(c) == Running(c, "rateLimit") /\ hits >= options.max + MaxOver

\* C12: while the revokeToken call of one request has not completed, every
\* other connection goes on: a request in the router can take its next stage,
\* a free connection can take a new request, a second pending call can
\* complete; and no step of another request touches the waiting one.
C12_HungCallStallsOnlyItsRequest ==
    /\ [](\A c, d \in Conns :
            (c # d /\ req[c].pc = "await") =>
                /\ req[d].pc = "run" => (ENABLED StageStep(d)) \/ CounterAtBound(d)
                /\ req[d].pc = "free" => ENABLED Arrive(d, "POST")
                /\ req[d].pc = "await" => ENABLED RevokeResolves(d)
                /\ req[d].pc \in {"done", "error"} => ENABLED Close(d))
    /\ [][ \A c \in Conns :
            (req[c].pc = "await" /\ req'[c] # req[c]) =>
                /\ req'[c].pc = "done"
                /\ \A d \in Conns \ {c} :
                      req'[d] = req[d] /\ res'[d] = res[d] /\ calls'[d] = calls[d] ]_vars

C12_Witness ==
    \E c, d \in Conns :
        /\ c # d
        /\ req[c].pc = "await"
        /\ Answered(d) /\ Invoked(d) /\ res[d].status = 200

\* C13 as stated: no error raised while a request is processed leaves the
\* endpoint; every one is turned into a response by the endpoint itself.
C13_AsStated ==
    \A c \in Conns : req[c].pc # "error"

\* C14 as stated: the cross-origin stage adds the allow-any-origin header and
\* hands every request, whatever its method, to the method gate; it never
\* answers a request itself; every response carries the header.
C14_AsStated ==
    \A c \in Conns :
        /\ RanStage(c, "cors") => "Access-Control-Allow-Origin: *" \in res[c].headers
        /\ Answered(c) => "Access-Control-Allow-Origin: *" \in res[c].headers
        /\ Answered(c) => req[c].ran # <<"cors">>
        /\ req[c].client # NoValue => RanStage(c, "authenticateClient")

\* C14 amended: the cross-origin stage adds the allow-any-origin header for
\* every request; a request of any method but OPTIONS it hands to the method
\* gate without answering it; an OPTIONS request it answers itself (204, no
\* body); it never attaches a client to a request; every response the endpoint
\* produces carries the header.
C14_CorsOnlyHeadersButPreflight ==
    \A c \in Conns :
        /\ RanStage(c, "cors") => "Access-Control-Allow-Origin: *" \in res[c].headers
        /\ Answered(c) => "Access-Control-Allow-Origin: *" \in res[c].headers
        /\ (req[c].ran = <<"cors">> /\ req[c].method # "OPTIONS") =>
                /\ req[c].pc = "run"
                /\ res[c].status = 0
                /\ router[req[c].at] = "allowedMethods"
        /\ (req[c].ran = <<"cors">> /\ req[c].method = "OPTIONS") =>
                /\ Answered(c)
                /\ res[c].status = 204
                /\ res[c].ended = "end"
        /\ req[c].ran = <<"cors">> => req[c].client = NoValue
        /\ req[c].client # NoValue => RanStage(c, "authenticateClient")

C14_Witness ==
    /\ \E c \in Conns :
        /\ req[c].method = "OPTIONS" /\ Answered(c)
        /\ "Access-Control-Allow-Origin: *" \in res[c].headers
    /\ \E c \in Conns :
        /\ req[c].method = "DELETE" /\ req[c].ran = <<"cors">> /\ req[c].pc = "run"

\* C15: when the POST handler gets a request with a schema-valid body and no
\* client attached, it answers 500 ServerError and does not invoke
\* revokeToken; with an invalid body and no client it answers 400
\* InvalidRequest, the body being validated before the client is read.
C15_MissingClientIs500 ==
    \A c \in Conns :
        (RanStage(c, "post") /\ req[c].client = NoValue) =>
            /\ Answered(c)
            /\ ~Invoked(c)
            /\ NoStore \in res[c].headers
            /\ IF /\ "token" \in DOMAIN req[c].body
                  /\ \A f \in SchemaFields \cap DOMAIN req[c].body : Len(req[c].body[f]) = 1
               THEN /\ res[c].status = 500
                    /\ res[c].json = ErrorBody("server_error", "Internal Server Error")
               ELSE /\ res[c].status = 400
                    /\ <<"error", "invalid_request">> \in res[c].json

C15_Witness ==
    \E c, d \in Conns :
        /\ RanStage(c, "post") /\ req[c].client = NoValue /\ res[c].status = 500
        /\ RanStage(d, "post") /\ req[d].client = NoValue /\ res[d].status = 400

\* C16: revokeToken is invoked at most once for a request; a response, once
\* sent, is never sent again or changed; and once a request is answered (or its
\* error has left the router) no stage runs for it and nothing is retried: the
\* connection can only be released for the next request.
C16_NoRetry ==
    /\ [](\A c \in Conns :
            /\ Len(calls[c]) <= 1
            /\ req[c].pc \in {"done", "error"} => ~ENABLED StageStep(c)
            /\ req[c].pc = "done" <=> res[c].status # 0)
    /\ [][ \A c \in Conns :
            /\ req[c].pc \in {"done", "error"} =>
                  \/ req'[c] = req[c] /\ res'[c] = res[c] /\ calls'[c] = calls[c]
                  \/ req'[c] = FreshReq /\ res'[c] = FreshRes /\ calls'[c] = <<>>
            /\ Len(calls[c]) = 1 => (calls'[c] = calls[c] \/ calls'[c] = <<>>) ]_vars

C16_Witness ==
    \E c, d \in Conns :
        /\ Answered(c) /\ Len(calls[c]) = 1 /\ res[c].status = 500
           /\ req[c].thrown.class = "Error"
        /\ Answered(d) /\ res[d].status = 429

OptionNames == {"windowMs", "max", "standardHeaders", "legacyHeaders", "message"}

\* What the caller's configuration supplies: nothing when it is absent.
Supplied == IF rateLimitConfig.kind = "object" THEN DOMAIN rateLimitConfig.value ELSE {}

\* C17: with rate limiting enabled, the options handed to the rate limiter are
\* the caller's configuration merged over the defaults (window 15 minutes, max
\* 50, standard headers on, legacy headers off, message the TooManyRequests
\* body): a supplied option has the caller's value, an omitted one the default,
\* and an absent configuration gives exactly the defaults.
C17_OptionsMergedOverDefaults ==
    (constructed = "ok" /\ rateLimitConfig.kind # "false") =>
        /\ DOMAIN options = OptionNames \cup Supplied
        /\ \A k \in Supplied : options[k] = rateLimitConfig.value[k]
        /\ "windowMs" \notin Supplied => options.windowMs = 900000
        /\ "max" \notin Supplied => options.max = 50
        /\ "standardHeaders" \notin Supplied => options.standardHeaders = TRUE
        /\ "legacyHeaders" \notin Supplied => options.legacyHeaders = FALSE
        /\ "message" \notin Supplied =>
              options.message = ErrorBody("too_many_requests",
                  "You have exceeded the rate limit for token revocation requests")
        /\ \A c \in Conns :
              /\ req[c].limited => res[c].json = options.message
              /\ RanStage(c, "rateLimit") =>
                    /\ ("RateLimit-Limit" \in res[c].headers) = options.standardHeaders
                    /\ ("X-RateLimit-Limit" \in res[c].headers) = options.legacyHeaders

C17_Witness ==
    /\ constructed = "ok"
    /\ Supplied = {"max", "message"}
    /\ options.max = 2
    /\ options.windowMs = 900000
    /\ \E c \in Conns : req[c].limited /\ hits = 3

\* C18: every response of the POST handler, the 200 and the error responses
\* alike, carries Cache-Control: no-store, which is set before validation and
\* delegation; a response of an earlier stage (cross-origin, method gate, rate
\* limit, authentication) does not carry it.
C18_NoStoreOnHandlerResponses ==
    \A c \in Conns :
        /\ RanStage(c, "post") => "Cache-Control: no-store" \in res[c].headers
        /\ ~RanStage(c, "post") => "Cache-Control: no-store" \notin res[c].headers
        /\ (Answered(c) /\ res[c].status \in {200, 500}) => RanStage(c, "post")
        /\ (Answered(c) /\ res[c].status \in {204, 405, 429, 401}) => ~RanStage(c, "post")

C18_Witness ==
    /\ \E c \in Conns :
        /\ Answered(c) /\ RanStage(c, "post") /\ res[c].status = 400
        /\ "Cache-Control: no-store" \in res[c].headers
    /\ \E c \in Conns :
        /\ Answered(c) /\ res[c].status = 429
        /\ "Cache-Control: no-store" \notin res[c].headers

\* The request on connection c takes the rate-limit stage in this step.
CountedNow(c) == req'[c].ran = Append(req[c].ran, "rateLimit")

====
